---- MODULE Spec2Model ----
(***************************************************************************)
(* Model of src/utils/svgUtils.js: flattenShapes, getShapeAttributes,      *)
(* parsePoints, getStyleAttributes and parseGradient.                      *)
(*                                                                         *)
(* The module is a set of synchronous functions over a host document tree. *)
(* The state is one call: which function, on which argument, and what     *)
(* came back (a returned value or a thrown TypeError).                     *)
(*                                                                         *)
(* Strings are sequences of symbols.  A symbol is either one character     *)
(* ("5", ".", ";", ":", " ", ...) or a fixed chunk of characters that the  *)
(* code never looks into ("fill", "red", "g1", "url(", ...).               *)
(* JavaScript values are tagged records: [t |-> "null"], [t |-> "string",  *)
(* s |-> ...], [t |-> "number", ...], [t |-> "NaN"], [t |-> "object", ...].*)
(***************************************************************************)
EXTENDS Integers, Sequences, FiniteSets, TLC

VARIABLES call, arg, ret

vars == <<call, arg, ret>>

(***************************************************************************)
(* Bounds of the model.                                                    *)
(***************************************************************************)
\* nodes in a forest handed to flattenShapes
MaxNodes == 5
\* symbols in an attribute string handed to getShapeAttributes / parsePoints
MaxLen == 3
\* symbols in an inline style string
MaxStyleLen == 4
\* descendants of a gradient element handed to parseGradient
MaxStops == 2

(***************************************************************************)
(* JavaScript values.                                                      *)
(***************************************************************************)
Null == [t |-> "null"]

Undefined == [t |-> "undefined"]

NaN == [t |-> "NaN"]

Str(s) == [t |-> "string", s |-> s]

\* the number (-1)^neg * mant / 10^scale, with no trailing zero in the fraction
RECURSIVE Num(_, _, _)
Num(neg, mant, scale) ==
  IF scale > 0 /\ mant % 10 = 0
    THEN Num(neg, mant \div 10, scale - 1)
    ELSE [t |-> "number", neg |-> neg, mant |-> mant, scale |-> scale]

Return(v) == [kind |-> "return", value |-> v]

Throw == [kind |-> "throw", error |-> "TypeError"]

(***************************************************************************)
(* String primitives of the host language.                                 *)
(***************************************************************************)
IsSpace(c) == c = " "

\* String.prototype.trim
RECURSIVE Trim(_)
Trim(s) ==
  IF s = <<>> THEN s
  ELSE IF IsSpace(Head(s)) THEN Trim(Tail(s))
  ELSE IF IsSpace(s[Len(s)]) THEN Trim(SubSeq(s, 1, Len(s) - 1))
  ELSE s

\* removal of leading white space only (the first step of parseFloat)
RECURSIVE TrimStart(_)
TrimStart(s) ==
  IF s # <<>> /\ IsSpace(Head(s)) THEN TrimStart(Tail(s)) ELSE s

\* String.prototype.split with a one-character separator
RECURSIVE Split(_, _)
Split(s, sep) ==
  IF \E i \in 1..Len(s) : s[i] = sep
    THEN LET i == CHOOSE k \in 1..Len(s) :
                    s[k] = sep /\ \A j \in 1..(k - 1) : s[j] # sep
         IN  <<SubSeq(s, 1, i - 1)>> \o Split(SubSeq(s, i + 1, Len(s)), sep)
    ELSE <<s>>

\* String.prototype.split(/\s+/)
RECURSIVE SplitWs(_)
SplitWs(s) ==
  IF \E i \in 1..Len(s) : IsSpace(s[i])
    THEN LET i == CHOOSE k \in 1..Len(s) :
                    IsSpace(s[k]) /\ \A j \in 1..(k - 1) : ~IsSpace(s[j])
             e == CHOOSE k \in i..Len(s) :
                    /\ \A j \in i..k : IsSpace(s[j])
                    /\ (k = Len(s) \/ ~IsSpace(s[k + 1]))
         IN  <<SubSeq(s, 1, i - 1)>> \o SplitWs(SubSeq(s, e + 1, Len(s)))
    ELSE <<s>>

\* all strings of at most n symbols over the alphabet syms
Strings(syms, n) == UNION {[1..k -> syms] : k \in 0..n}

Digits == {"0", "5"}

DigitVal(c) == IF c = "5" THEN 5 ELSE 0

\* length of the longest run of digits of s that starts at position p
RECURSIVE DigitRun(_, _)
DigitRun(s, p) ==
  IF p <= Len(s) /\ s[p] \in Digits THEN 1 + DigitRun(s, p + 1) ELSE 0

\* value of the digit string s[p..p+n-1] in the given base, on top of acc
RECURSIVE DigitsVal(_, _, _, _, _)
DigitsVal(s, p, n, base, acc) ==
  IF n = 0 THEN acc
  ELSE DigitsVal(s, p + 1, n - 1, base, acc * base + DigitVal(s[p]))

\* The longest prefix of s that is a StrDecimalLiteral: [ok, end, value].
\* sign? digits+ ( "." digits* )?   or   sign? "." digits+
ScanDecimal(s) ==
  LET neg   == s # <<>> /\ Head(s) = "-"
      p     == IF neg THEN 2 ELSE 1
      ni    == DigitRun(s, p)
      dot   == p + ni <= Len(s) /\ s[p + ni] = "."
      nf    == IF dot THEN DigitRun(s, p + ni + 1) ELSE 0
      ok    == ni > 0 \/ (dot /\ nf > 0)
      end   == IF dot THEN p + ni + nf ELSE p + ni - 1
      ipart == DigitsVal(s, p, ni, 10, 0)
      mant  == DigitsVal(s, p + ni + 1, nf, 10, ipart)
  IN  [ok |-> ok, end |-> end, value |-> Num(neg, mant, nf)]

\* the global parseFloat applied to a string
parseFloat(s) ==
  LET t == TrimStart(s)
      d == ScanDecimal(t)
  IN  IF d.ok THEN d.value ELSE NaN

\* ToNumber applied to a string (the coercion behind Number(s) and isNaN(s))
ToNumber(s) ==
  LET t == Trim(s)
      d == ScanDecimal(t)
  IN  IF t = <<>> THEN Num(FALSE, 0, 0)
      ELSE IF Len(t) > 2 /\ t[1] = "0" /\ t[2] = "x"
                /\ DigitRun(t, 3) = Len(t) - 2
        THEN Num(FALSE, DigitsVal(t, 3, Len(t) - 2, 16, 0), 0)
      ELSE IF d.ok /\ d.end = Len(t) THEN d.value
      ELSE NaN

\* the global isNaN applied to a string
isNaN(s) == ToNumber(s) = NaN

\* String.prototype.toLowerCase on one symbol of a tag name
toLowerCase(tag) ==
  CASE tag = "G" -> "g"
    [] tag = "CIRCLE" -> "circle"
    [] tag = "Path" -> "path"
    [] tag = "Gradient" -> "gradient"
    [] OTHER -> tag

\* the names every plain object inherits from Object.prototype, among the
\* names of the model
ObjectPrototypeKeys == {"constructor", "hasOwnProperty"}

\* a value found on the prototype chain: truthy, not an array, not callable
\* as an array method
InheritedFunction == [t |-> "function"]

Array(items) == [t |-> "array", items |-> items]

Object(fields) == [t |-> "object", fields |-> fields]

\* element.getAttribute(name)
getAttribute(element, name) ==
  IF name \in DOMAIN element.attrs THEN Str(element.attrs[name]) ELSE Null

\* the empty attribute map
NoAttrs == [x \in {} |-> <<>>]

(***************************************************************************)
(* flattenShapes.  A forest is [n, parent, tag]: nodes 1..n, the parent of *)
(* each (0 for a node of the input array) and its tag name; the children   *)
(* of a node are the nodes naming it as parent, in increasing order.       *)
(***************************************************************************)
FlattenTags == {"g", "G", "rect"}

Forests ==
  UNION {[n : {n}, parent : {p \in [1..n -> 0..n] : \A i \in 1..n : p[i] < i},
          tag : [1..n -> FlattenTags]] : n \in 0..MaxNodes}

\* the increasing sequence of the members of a set of numbers
RECURSIVE SortedSeq(_)
SortedSeq(S) ==
  IF S = {} THEN <<>>
  ELSE LET m == CHOOSE x \in S : \A y \in S : x <= y
       IN  <<m>> \o SortedSeq(S \ {m})

\* el.children (and, for 0, the array passed by the caller)
Children(f, p) == SortedSeq({i \in 1..f.n : f.parent[i] = p})

\* flattenShapes with the tag compared as written, not lower-cased
RECURSIVE flattenShapes_caseSensitive(_, _)
flattenShapes_caseSensitive(f, elements) ==
  IF elements = <<>> THEN <<>>
  ELSE LET el == Head(elements)
       IN  (IF f.tag[el] = "g"
              THEN flattenShapes_caseSensitive(f, Children(f, el))
              ELSE <<el>>)
           \o flattenShapes_caseSensitive(f, Tail(elements))

\* flattenShapes with the content of a group appended after its siblings
RECURSIVE flattenShapes_groupsLast(_, _)
flattenShapes_groupsLast(f, elements) ==
  IF elements = <<>> THEN <<>>
  ELSE LET el == Head(elements)
       IN  IF toLowerCase(f.tag[el]) = "g"
             THEN flattenShapes_groupsLast(f, Tail(elements))
                    \o flattenShapes_groupsLast(f, Children(f, el))
             ELSE <<el>> \o flattenShapes_groupsLast(f, Tail(elements))

RECURSIVE flattenShapes(_, _)
flattenShapes(f, elements) ==
  IF elements = <<>> THEN <<>>
  ELSE LET el == Head(elements)
       IN  (IF toLowerCase(f.tag[el]) = "g"
              THEN flattenShapes(f, Children(f, el))
              ELSE <<el>>)
           \o flattenShapes(f, Tail(elements))

(***************************************************************************)
(* getShapeAttributes and parsePoints.                                     *)
(***************************************************************************)
\* attributesMap[shapeType]: an own entry, else what the prototype chain
\* holds under that name, else undefined
attributesMap(shapeType) ==
  CASE shapeType = "circle" -> Array(<<"cx", "cy", "r">>)
    [] shapeType = "ellipse" -> Array(<<"cx", "cy", "rx", "ry">>)
    [] shapeType = "rect" -> Array(<<"x", "y", "width", "height", "rx", "ry">>)
    [] shapeType = "line" -> Array(<<"x1", "y1", "x2", "y2">>)
    [] shapeType = "polyline" -> Array(<<"points">>)
    [] shapeType = "polygon" -> Array(<<"points">>)
    [] shapeType \in ObjectPrototypeKeys -> InheritedFunction
    [] OTHER -> Undefined

\* p.split(",").map(Number)
MapNumber(pieces) == [i \in 1..Len(pieces) |-> ToNumber(pieces[i])]

parsePoints(points) ==
  LET tokens == SplitWs(Trim(points))
  IN  Array([i \in 1..Len(tokens) |-> Array(MapNumber(Split(tokens[i], ",")))])

\* the value stored for one listed attribute
ShapeValue(element, attr) ==
  LET value == getAttribute(element, attr)
  IN  IF value # Null
        THEN IF attr = "points" THEN parsePoints(value.s)
             ELSE IF isNaN(value.s) THEN value
             ELSE parseFloat(value.s)
        ELSE Null

getShapeAttributes(element) ==
  LET shapeType  == toLowerCase(element.tagName)
      found      == attributesMap(shapeType)
      attributes == IF found = Undefined THEN Array(<<>>) ELSE found
  IN  IF shapeType = "path" THEN Return(getAttribute(element, "d"))
      ELSE IF attributes.t # "array" THEN Throw
      ELSE Return(Object([attr \in {attributes.items[i] :
                                      i \in 1..Len(attributes.items)} |->
                            ShapeValue(element, attr)]))

ShapeTags == {"circle", "CIRCLE", "ellipse", "rect", "line", "polyline",
              "polygon", "path", "Path", "text", "constructor"}

AttrSyms == {"0", "5", ".", "-", " ", "x", ","}

AttrStrings == Strings(AttrSyms, MaxLen)

\* the attribute whose value ranges over every string of the model
VaryNames == {"cx", "points", "d", "fill"}

ShapeAttrMaps ==
  {NoAttrs}
    \cup {(n :> v) : n \in VaryNames, v \in AttrStrings}
    \cup {(n :> v) @@ ("r" :> <<"5">>) : n \in VaryNames, v \in AttrStrings}

ShapeElements == [tagName : ShapeTags, attrs : ShapeAttrMaps]

(***************************************************************************)
(* parseGradient.  A gradient element is [tagName, attrs, n, parent, tag,  *)
(* nattrs]: its tag name as a sequence of symbols, its own attributes, and *)
(* its n descendants with their parent (0 for a child of the element), tag *)
(* name and attributes.                                                    *)
(***************************************************************************)
\* gradientAttributes[gradient.tagName]
gradientAttributes(tagName) ==
  CASE tagName = <<"linear", "Gradient">> -> Array(<<"x1", "y1", "x2", "y2">>)
    [] tagName = <<"radial", "Gradient">> ->
         Array(<<"cx", "cy", "r", "fx", "fy">>)
    [] Len(tagName) = 1 /\ tagName[1] \in ObjectPrototypeKeys ->
         InheritedFunction
    [] OTHER -> Undefined

\* the descendants below the nodes of elements, in document order
RECURSIVE Descendants(_, _)
Descendants(g, elements) ==
  IF elements = <<>> THEN <<>>
  ELSE <<Head(elements)>> \o Descendants(g, Children(g, Head(elements)))
                          \o Descendants(g, Tail(elements))

\* gradient.getElementsByTagName(name)
getElementsByTagName(g, name) ==
  SelectSeq(Descendants(g, Children(g, 0)), LAMBDA i : g.tag[i] = name)

\* stop.getAttribute(name) || fallback
StopAttribute(g, i, name, fallback) ==
  LET value == getAttribute([attrs |-> g.nattrs[i]], name)
  IN  IF value = Null \/ value.s = <<>> THEN fallback ELSE value

\* tagName.replace("Gradient", "").toLowerCase()
GradientType(tagName) ==
  LET at == {i \in 1..Len(tagName) : tagName[i] = "Gradient"}
      cut == IF at = {} THEN tagName
             ELSE LET k == CHOOSE i \in at : \A j \in at : i <= j
                  IN  SubSeq(tagName, 1, k - 1)
                        \o SubSeq(tagName, k + 1, Len(tagName))
  IN  [i \in 1..Len(cut) |-> toLowerCase(cut[i])]

parseGradient(gradient) ==
  IF gradient = Null THEN Return(Null)
  ELSE
    LET found == gradientAttributes(gradient.tagName)
        attrs == IF found = Undefined THEN Array(<<>>) ELSE found
        stops == getElementsByTagName(gradient, "stop")
    IN  IF attrs.t # "array" THEN Throw
        ELSE Return(
          [t |-> "gradient",
           type |-> Str(GradientType(gradient.tagName)),
           geometry |-> [a \in {attrs.items[i] : i \in 1..Len(attrs.items)} |->
                           getAttribute(gradient, a)],
           stops |-> [k \in 1..Len(stops) |->
                        [offset |-> StopAttribute(gradient, stops[k], "offset",
                                                  Num(FALSE, 0, 0)),
                         color |-> StopAttribute(gradient, stops[k],
                                                 "stop-color",
                                                 Str(<<"#000000">>))]]])

GradientTags == {<<"linear", "Gradient">>, <<"radial", "Gradient">>,
                 <<"clip", "Path">>, <<"constructor">>}

GradientAttrMaps ==
  {NoAttrs, ("x1" :> <<"5">>), ("cx" :> <<"5">>) @@ ("x1" :> <<>>)}

StopAttrMaps ==
  {NoAttrs,
   ("offset" :> <<>>) @@ ("stop-color" :> <<>>),
   ("offset" :> <<"0.5">>) @@ ("stop-color" :> <<"red">>),
   ("stop-color" :> <<"red">>)}

GradientElements ==
  UNION {[tagName : GradientTags, attrs : GradientAttrMaps, n : {n},
          parent : {p \in [1..n -> 0..n] : \A i \in 1..n : p[i] < i},
          tag : [1..n -> {"stop", "g"}],
          nattrs : [1..n -> StopAttrMaps]] : n \in 0..MaxStops}

(***************************************************************************)
(* getStyleAttributes.  An element is [attrs, ownerDocument]; a document   *)
(* is [ids]: the elements it holds, by id.  ownerDocument is Null for an   *)
(* element that belongs to no document.                                    *)
(***************************************************************************)
\* the allow-list, in the order the code walks it
StyleAttributes ==
  <<"fill", "stroke", "stroke-width", "opacity", "transform", "clip-path">>

\* one segment of the inline style: s.split(":").map(part => part.trim())
StyleEntry(segment) ==
  LET parts == Split(segment, ":")
  IN  [i \in 1..Len(parts) |-> Trim(parts[i])]

\* Object.fromEntries over the entries from position i on, on top of obj:
\* the key is entry[0], the value entry[1], a later entry overwrites
RECURSIVE FromEntries(_, _, _)
FromEntries(entries, i, obj) ==
  IF i > Len(entries) THEN obj
  ELSE LET e == entries[i]
           v == IF Len(e) >= 2 THEN Str(e[2]) ELSE Undefined
       IN  FromEntries(entries, i + 1,
                       [k \in DOMAIN obj \cup {e[1]} |->
                          IF k = e[1] THEN v ELSE obj[k]])

\* the empty style record
NoStyles == [k \in {} |-> Undefined]

\* the style record after the inline style is merged (lines 86-95)
InlineStyles(element) ==
  LET inlineStyle == getAttribute(element, "style")
  IN  IF inlineStyle = Null \/ inlineStyle.s = <<>> THEN NoStyles
      ELSE LET segments == SelectSeq(Split(inlineStyle.s, ";"),
                                     LAMBDA seg : seg # <<>>)
               entries  == [i \in 1..Len(segments) |-> StyleEntry(segments[i])]
           IN  FromEntries(entries, 1, NoStyles)

\* value.match(/#(.*)\)/)?.[1]: the text between the first "#" and the last
\* ")" after it, undefined when there is no such pair
GradientId(value) ==
  LET hashes == {i \in 1..Len(value) : value[i] = "#"}
  IN  IF hashes = {} THEN Undefined
      ELSE LET h == CHOOSE i \in hashes : \A j \in hashes : i <= j
               closes == {i \in (h + 1)..Len(value) : value[i] = ")"}
           IN  IF closes = {} THEN Undefined
               ELSE LET c == CHOOSE i \in closes : \A j \in closes : j <= i
                    IN  Str(SubSeq(value, h + 1, c - 1))

\* document.getElementById(id)
getElementById(document, id) ==
  IF id \in DOMAIN document.ids THEN document.ids[id] ELSE Null

\* the body of attributes.forEach for one attribute (lines 98-116): the style
\* record afterwards, or the error thrown
StyleAttribute(element, attr, styles) ==
  LET value == getAttribute(element, attr)
  IN  IF value = Null \/ value.s = <<>> \/ value.s = <<"none">>
        THEN Return(styles)
      ELSE IF value.s[1] = "url("
        THEN LET gradientId == GradientId(value.s)
             IN  IF gradientId = Undefined \/ gradientId.s = <<>>
                   THEN Return(styles)
                 ELSE IF element.ownerDocument = Null THEN Throw
                 ELSE LET gradient ==
                            getElementById(element.ownerDocument, gradientId.s)
                      IN  IF gradient = Null THEN Return(styles)
                          ELSE LET parsed == parseGradient(gradient)
                               IN  IF parsed.kind = "throw" THEN Throw
                                   ELSE Return(
                                     [k \in DOMAIN styles \cup {<<attr>>} |->
                                        IF k = <<attr>> THEN parsed.value
                                        ELSE styles[k]])
      ELSE IF <<"hasOwnProperty">> \in DOMAIN styles THEN Throw
      ELSE IF <<attr>> \in DOMAIN styles THEN Return(styles)
      ELSE Return([k \in DOMAIN styles \cup {<<attr>>} |->
                     IF k = <<attr>> THEN value ELSE styles[k]])

\* attributes.forEach from position i on; an error ends the walk
RECURSIVE ForEachAttribute(_, _, _)
ForEachAttribute(element, i, styles) ==
  IF i > Len(StyleAttributes) THEN Return(Object(styles))
  ELSE LET r == StyleAttribute(element, StyleAttributes[i], styles)
       IN  IF r.kind = "throw" THEN r
           ELSE ForEachAttribute(element, i + 1, r.value)

getStyleAttributes(element) ==
  ForEachAttribute(element, 1, InlineStyles(element))

StyleSyms == {";", ":", " ", "fill", "red", "hasOwnProperty"}

StyleStrings == Strings(StyleSyms, MaxStyleLen)

\* the elements of the document of the model, by id
LinearGradientG1 ==
  [tagName |-> <<"linear", "Gradient">>, attrs |-> ("x1" :> <<"0">>), n |-> 2,
   parent |-> <<0, 0>>, tag |-> <<"stop", "stop">>,
   nattrs |-> <<("offset" :> <<"0">>) @@ ("stop-color" :> <<"red">>),
                ("offset" :> <<"1">>)>>]

RadialGradientR1 ==
  [tagName |-> <<"radial", "Gradient">>, attrs |-> NoAttrs, n |-> 0,
   parent |-> <<>>, tag |-> <<>>, nattrs |-> <<>>]

ClipPathC1 ==
  [tagName |-> <<"clip", "Path">>, attrs |-> NoAttrs, n |-> 1,
   parent |-> <<0>>, tag |-> <<"rect">>, nattrs |-> <<NoAttrs>>]

Document ==
  [ids |-> (<<"g1">> :> LinearGradientG1) @@ (<<"r1">> :> RadialGradientR1)
             @@ (<<"c1">> :> ClipPathC1)]

Documents == {Null, Document}

Url(id) == <<"url(", "#">> \o id \o <<")">>

\* the values a presentation attribute takes in the model
StyleAttrValues ==
  {<<>>, <<"none">>, <<"red">>, <<"blue">>, Url(<<"g1">>), Url(<<"r1">>),
   Url(<<"c1">>), Url(<<"zz">>), Url(<<>>), <<"url(", ")">>,
   <<"url(", "g1", ")">>, <<"url(", "#", "g1">>}

StyleAttrNames == {StyleAttributes[i] : i \in 1..Len(StyleAttributes)}

\* at most two presentation attributes, each with any value of the model
StyleAttrMaps ==
  {NoAttrs}
    \cup {(a :> v) : a \in StyleAttrNames, v \in StyleAttrValues}
    \cup {(a :> v) @@ (b :> w) : a \in StyleAttrNames, b \in StyleAttrNames,
                                 v \in StyleAttrValues, w \in StyleAttrValues}

\* a few presentation attributes, for the elements whose inline style
\* ranges over every string of the model
FewAttrMaps ==
  {NoAttrs, ("fill" :> <<"blue">>), ("fill" :> Url(<<"g1">>)),
   ("fill" :> Url(<<"zz">>)), ("stroke" :> <<"blue">>)}

\* a few inline styles, for the elements whose presentation attributes
\* range over every map of the model
FewStyles ==
  {<<"fill", ":", "red">>, <<"fill", ":", "red", ";", "stroke", ":", "red">>,
   <<"hasOwnProperty", ":", "red">>, <<"fill", ":", "none">>}

WithStyle(attrs, style) == attrs @@ ("style" :> style)

StyleElements ==
  [attrs : StyleAttrMaps
             \cup {WithStyle(a, st) : a \in StyleAttrMaps, st \in FewStyles}
             \cup {WithStyle(a, st) : a \in FewAttrMaps, st \in StyleStrings},
   ownerDocument : Documents]

(***************************************************************************)
(* The calls.  A behaviour is one call: the caller picks the function and  *)
(* its argument, and the call runs to completion in one step.              *)
(***************************************************************************)
Pending == [kind |-> "pending"]

Init ==
  /\ ret = Pending
  /\ \/ call = "flattenShapes" /\ arg \in Forests
     \/ call = "getShapeAttributes" /\ arg \in ShapeElements
     \/ call = "parsePoints" /\ arg \in AttrStrings
     \/ call = "getStyleAttributes" /\ arg \in StyleElements
     \/ call = "parseGradient" /\ arg \in GradientElements \cup {Null}

CallFlattenShapes ==
  /\ call = "flattenShapes" /\ ret = Pending
  /\ ret' = Return(flattenShapes(arg, Children(arg, 0)))
  /\ UNCHANGED <<call, arg>>

CallGetShapeAttributes ==
  /\ call = "getShapeAttributes" /\ ret = Pending
  /\ ret' = getShapeAttributes(arg)
  /\ UNCHANGED <<call, arg>>

CallParsePoints ==
  /\ call = "parsePoints" /\ ret = Pending
  /\ ret' = Return(parsePoints(arg))
  /\ UNCHANGED <<call, arg>>

CallGetStyleAttributes ==
  /\ call = "getStyleAttributes" /\ ret = Pending
  /\ ret' = getStyleAttributes(arg)
  /\ UNCHANGED <<call, arg>>

CallParseGradient ==
  /\ call = "parseGradient" /\ ret = Pending
  /\ ret' = parseGradient(arg)
  /\ UNCHANGED <<call, arg>>

Next ==
  \/ CallFlattenShapes
  \/ CallGetShapeAttributes
  \/ CallParsePoints
  \/ CallGetStyleAttributes
  \/ CallParseGradient

Spec == Init /\ [][Next]_vars

(***************************************************************************)
(* The properties.                                                         *)
(***************************************************************************)
Called(name) == call = name /\ ret # Pending

IsGroupTag(t) == t \in {"g", "G"}

\* every ancestor of node i is a group: i is met when the groups of the
\* input are expanded in place
RECURSIVE MetByExpansion(_, _)
MetByExpansion(f, i) ==
  \/ f.parent[i] = 0
  \/ IsGroupTag(f.tag[f.parent[i]]) /\ MetByExpansion(f, f.parent[i])

\* the non-group nodes of the forest, at every depth of group nesting
ShapeNodes(f) == {i \in 1..f.n : ~IsGroupTag(f.tag[i]) /\ MetByExpansion(f, i)}

\* the nodes from the top of the forest down to node i
RECURSIVE PathTo(_, _)
PathTo(f, i) == IF i = 0 THEN <<>> ELSE PathTo(f, f.parent[i]) \o <<i>>

\* node a is met before node b on a depth-first, left-to-right walk
MetBefore(f, a, b) ==
  LET pa == PathTo(f, a)
      pb == PathTo(f, b)
  IN  \E k \in 1..Len(pb) :
        /\ \A j \in 1..(k - 1) : j <= Len(pa) /\ pa[j] = pb[j]
        /\ (k > Len(pa) \/ pa[k] < pb[k])

\* C1: the sequence flattenShapes returns holds no node whose tag is "g" in
\* any letter case, and is as long as the number of non-group nodes of the
\* forest counted through every depth of group nesting (none for an empty
\* input or for empty groups).
C1_NoGroupAndCount ==
  Called("flattenShapes") =>
    /\ ret.kind = "return"
    /\ \A k \in 1..Len(ret.value) : ~IsGroupTag(arg.tag[ret.value[k]])
    /\ Len(ret.value) = Cardinality(ShapeNodes(arg))

\* a group in a "G" group in a group, an empty group, and two shapes out
C1_Witness ==
  /\ Called("flattenShapes")
  /\ arg.n = 5
  /\ arg.tag = <<"g", "G", "rect", "g", "rect">>
  /\ arg.parent = <<0, 1, 2, 0, 0>>
  /\ ret = Return(<<3, 5>>)

\* C2: flattenShapes returns the non-group nodes in the order a depth-first
\* walk that expands each group in place meets them, each exactly once.
C2_EncounterOrder ==
  Called("flattenShapes") =>
    /\ ret.kind = "return"
    /\ \A i, j \in 1..Len(ret.value) :
         i < j => MetBefore(arg, ret.value[i], ret.value[j])
    /\ \A n \in ShapeNodes(arg) :
         Cardinality({k \in 1..Len(ret.value) : ret.value[k] = n}) = 1

\* [A, G(B, C), D] yields [A, B, C, D]
C2_Witness ==
  /\ Called("flattenShapes")
  /\ arg.n = 5
  /\ arg.tag = <<"rect", "g", "rect", "rect", "rect">>
  /\ arg.parent = <<0, 0, 2, 2, 0>>
  /\ ret = Return(<<1, 3, 4, 5>>)

StartsWithUrl(v) == v # <<>> /\ v[1] = "url("

\* what the returned record holds under the allow-listed property a whose
\* attribute is plain: the inline value when the inline style declares a,
\* else the attribute value unless it is empty or "none", else nothing
InlineWinsFor(a) ==
  LET inline == InlineStyles(arg)
      out    == ret.value.fields
      v      == arg.attrs[a]
  IN  IF <<a>> \in DOMAIN inline
        THEN <<a>> \in DOMAIN out /\ out[<<a>>] = inline[<<a>>]
      ELSE IF v # <<>> /\ v # <<"none">>
        THEN <<a>> \in DOMAIN out /\ out[<<a>>] = Str(v)
      ELSE <<a>> \notin DOMAIN out

\* C3: for every allow-listed property whose presentation attribute holds a
\* plain (non-url) value, the returned style record holds the inline value
\* when the inline style declares the property, and holds the attribute
\* value exactly when the inline style does not declare it and the attribute
\* is neither empty nor "none".
C3_InlineWins ==
  Called("getStyleAttributes") =>
    \A a \in StyleAttrNames :
      (a \in DOMAIN arg.attrs /\ ~StartsWithUrl(arg.attrs[a])) =>
        ret.kind = "return" /\ InlineWinsFor(a)

\* the same on the calls that return: the precedence itself is as stated
InlineWinsOnReturn ==
  (Called("getStyleAttributes") /\ ret.kind = "return") =>
    \A a \in StyleAttrNames :
      (a \in DOMAIN arg.attrs /\ ~StartsWithUrl(arg.attrs[a])) =>
        InlineWinsFor(a)

\* the presentation attribute a of the element is url(#id) with an id
IsGradientReference(element, a) ==
  /\ a \in DOMAIN element.attrs
  /\ \E id \in {<<"g1">>, <<"r1">>, <<"c1">>, <<"zz">>} :
       element.attrs[a] = Url(id)

ReferencedId(element, a) == SubSeq(element.attrs[a], 3, 3)

\* what the returned record holds under the allow-listed property a whose
\* attribute is url(#id): the parsed gradient when the id resolves, else
\* what the inline style left there
GradientReferenceFor(a) ==
  LET inline == InlineStyles(arg)
      out    == ret.value.fields
      id     == ReferencedId(arg, a)
  IN  IF arg.ownerDocument # Null /\ id \in DOMAIN arg.ownerDocument.ids
        THEN /\ <<a>> \in DOMAIN out
             /\ Return(out[<<a>>]) = parseGradient(arg.ownerDocument.ids[id])
      ELSE IF <<a>> \in DOMAIN inline
        THEN <<a>> \in DOMAIN out /\ out[<<a>>] = inline[<<a>>]
      ELSE <<a>> \notin DOMAIN out

\* C4: for every allow-listed attribute holding url(#id): when the id
\* resolves in the owning document, the returned record holds the parsed
\* gradient under that property, whatever the inline style declared; when
\* it does not resolve, the property is as the inline style left it, and
\* the raw url(...) string of the attribute is never stored.
C4_GradientReference ==
  Called("getStyleAttributes") =>
    \A a \in StyleAttrNames :
      IsGradientReference(arg, a) =>
        ret.kind = "return" /\ GradientReferenceFor(a)

\* the same on the calls that return
GradientReferenceOnReturn ==
  (Called("getStyleAttributes") /\ ret.kind = "return") =>
    \A a \in StyleAttrNames :
      IsGradientReference(arg, a) => GradientReferenceFor(a)

\* C5: no call of getShapeAttributes, getStyleAttributes, parsePoints,
\* parseGradient or flattenShapes ends in an error: each returns a value.
C5_NeverThrows ==
  ret # Pending => ret.kind = "return"

\* the fixed attribute list of each tag, as the specification gives it
ListedAttributes(tagName) ==
  CASE tagName \in {"circle", "CIRCLE"} -> {"cx", "cy", "r"}
    [] tagName = "ellipse" -> {"cx", "cy", "rx", "ry"}
    [] tagName = "rect" -> {"x", "y", "width", "height", "rx", "ry"}
    [] tagName = "line" -> {"x1", "y1", "x2", "y2"}
    [] tagName \in {"polyline", "polygon"} -> {"points"}
    [] OTHER -> {}

\* C6: for a tag other than "path" in any letter case, getShapeAttributes
\* returns a record whose keys are exactly the attribute list of the tag
\* (none for an unknown tag), whatever attributes the element carries; for a
\* path it returns the d attribute, or null when d is absent.
C6_KeySet ==
  Called("getShapeAttributes") =>
    IF arg.tagName \in {"path", "Path"}
      THEN ret = Return(IF "d" \in DOMAIN arg.attrs THEN Str(arg.attrs["d"])
                        ELSE Null)
      ELSE /\ ret.kind = "return"
           /\ ret.value.t = "object"
           /\ DOMAIN ret.value.fields = ListedAttributes(arg.tagName)

\* the same on the calls that return
KeySetOnReturn ==
  (Called("getShapeAttributes") /\ ret.kind = "return"
     /\ arg.tagName \notin {"path", "Path"}) =>
    /\ ret.value.t = "object"
    /\ DOMAIN ret.value.fields = ListedAttributes(arg.tagName)

\* C7: each listed attribute other than points resolves to null when it is
\* absent, to the raw string when the string is not a number under numeric
\* coercion, and otherwise to the number the string denotes.
C7_ValueResolution ==
  (Called("getShapeAttributes") /\ ret.kind = "return"
     /\ ret.value.t = "object") =>
    \A attr \in DOMAIN ret.value.fields \ {"points"} :
      ret.value.fields[attr] =
        IF attr \notin DOMAIN arg.attrs THEN Null
        ELSE IF ToNumber(arg.attrs[attr]) = NaN THEN Str(arg.attrs[attr])
        ELSE ToNumber(arg.attrs[attr])

\* the stop descendants of a gradient element in document order: by
\* increasing path from the element
StopsInOrder(g) ==
  LET S == {i \in 1..g.n : g.tag[i] = "stop"}
  IN  CHOOSE q \in [1..Cardinality(S) -> S] :
        \A i, j \in 1..Cardinality(S) : i < j => MetBefore(g, q[i], q[j])

\* C8: parseGradient returns null for an absent element; for a present one
\* the stops of the record it returns hold one {offset, color} per stop
\* descendant, in document order, the offset and stop-color attributes of
\* the stop, with 0 and "#000000" exactly when the attribute is absent.
C8_Stops ==
  Called("parseGradient") =>
    IF arg = Null THEN ret = Return(Null)
    ELSE ret.kind = "return" =>
         LET q == StopsInOrder(arg)
         IN  /\ Len(ret.value.stops) = Len(q)
             /\ \A k \in 1..Len(q) :
                  LET at == arg.nattrs[q[k]]
                  IN  /\ ret.value.stops[k].offset =
                           IF "offset" \in DOMAIN at THEN Str(at["offset"])
                           ELSE Num(FALSE, 0, 0)
                      /\ ret.value.stops[k].color =
                           IF "stop-color" \in DOMAIN at
                             THEN Str(at["stop-color"])
                           ELSE Str(<<"#000000">>)

\* the stops with the defaults taken when the attribute is absent or empty
StopsDefaultOnEmpty ==
  (Called("parseGradient") /\ ret.kind = "return" /\ arg # Null) =>
    LET q == StopsInOrder(arg)
    IN  /\ Len(ret.value.stops) = Len(q)
        /\ \A k \in 1..Len(q) :
             LET at == arg.nattrs[q[k]]
             IN  /\ ret.value.stops[k].offset =
                      IF "offset" \in DOMAIN at /\ at["offset"] # <<>>
                        THEN Str(at["offset"])
                      ELSE Num(FALSE, 0, 0)
                 /\ ret.value.stops[k].color =
                      IF "stop-color" \in DOMAIN at /\ at["stop-color"] # <<>>
                        THEN Str(at["stop-color"])
                      ELSE Str(<<"#000000">>)

\* position of the first ":" of a segment, 0 when it has none
FirstColon(seg) ==
  IF \E i \in 1..Len(seg) : seg[i] = ":"
    THEN CHOOSE i \in 1..Len(seg) :
           seg[i] = ":" /\ \A j \in 1..(i - 1) : seg[j] # ":"
    ELSE 0

\* the property name a segment declares
SegmentKey(seg) ==
  IF FirstColon(seg) = 0 THEN Trim(seg)
  ELSE Trim(SubSeq(seg, 1, FirstColon(seg) - 1))

\* C9: each non-empty segment of the inline style is split on its first ":"
\* only: the value kept for a property is the whole trimmed remainder of the
\* last segment that names it, further ":" included.
C9_FirstColonSplit ==
  (Called("getStyleAttributes") /\ DOMAIN arg.attrs = {"style"}
     /\ arg.attrs["style"] # <<>>) =>
    /\ ret.kind = "return"
    /\ LET segs == SelectSeq(Split(arg.attrs["style"], ";"),
                             LAMBDA seg : seg # <<>>)
           out  == ret.value.fields
       IN  \A i \in 1..Len(segs) :
             (/\ FirstColon(segs[i]) > 0
              /\ \A j \in (i + 1)..Len(segs) :
                   SegmentKey(segs[j]) # SegmentKey(segs[i])) =>
               /\ SegmentKey(segs[i]) \in DOMAIN out
               /\ out[SegmentKey(segs[i])] =
                    Str(Trim(SubSeq(segs[i], FirstColon(segs[i]) + 1,
                                    Len(segs[i]))))

\* C10: every structured value in a style record getStyleAttributes returns
\* is a gradient record of type "linear" or "radial".
C10_GradientTypes ==
  (Called("getStyleAttributes") /\ ret.kind = "return") =>
    \A k \in DOMAIN ret.value.fields :
      ret.value.fields[k].t \notin {"string", "undefined"} =>
        /\ ret.value.fields[k].t = "gradient"
        /\ ret.value.fields[k].type \in {Str(<<"linear">>), Str(<<"radial">>)}

====
